---- MODULE Spec2Model ----
(***************************************************************************)
(* A model of the pycoin script VM's integer / stack / byte-slice opcode   *)
(* handlers (pycoin/tx/script/intops.py), of the Bitcoin VM's instruction  *)
(* lookup (pycoin/coins/bitcoin/VM.py) and of the BCash signature hash     *)
(* entry point (pycoin/coins/bcash/SolutionChecker.py).                    *)
(*                                                                         *)
(* A stack item is a sequence of bytes (0..255).  A Python int is modelled *)
(* as an unbounded sign-magnitude number [neg, mag] whose magnitude is a   *)
(* little-endian sequence of base-256 digits without leading zero digits,  *)
(* so that results wider than four bytes are represented exactly.          *)
(*                                                                         *)
(* x << y lengthens x by y / 8 zero bytes, and y goes up to 2^31 - 1.  So  *)
(* that such an item is a value of the model, a run of sixteen or more     *)
(* zero bytes (or zero digits) is written as one element: the negative     *)
(* number -n stands for n zero bytes.  Shorter runs are written byte by    *)
(* byte, every run of zeros is maximal, and so each byte string has one    *)
(* representation: <<1, 0, 5>> is 01 00 05, <<-20, 2>> is twenty zero      *)
(* bytes followed by 02.  ByteLen, ByteSub and Pack read and build byte    *)
(* strings in this representation.                                         *)
(***************************************************************************)
EXTENDS Integers, Sequences, FiniteSets, TLC

VARIABLES stack, flags, pc, exc, errno, op, pre, steps, sh, opcode_pairs, OPCODE_DATA_LIST, INSTRUCTION_LOOKUP, opcode, msg

vars == <<stack, flags, pc, exc, errno, op, pre, steps, sh, opcode_pairs,
          OPCODE_DATA_LIST, INSTRUCTION_LOOKUP, opcode, msg>>

\* the variables of the instruction lookup
lookup_vars == <<opcode_pairs, OPCODE_DATA_LIST, INSTRUCTION_LOOKUP, opcode, msg>>

-----------------------------------------------------------------------------
(* Bounds of the model *)

\* deepest data stack an evaluation starts with
MaxDepth == 2
\* number of handler calls in one evaluation
MaxSteps == 2
\* largest hash_type handed to signature_hash
MaxHashType == 255
\* largest input index handed to signature_hash
MaxTxInIdx == 1

\* the longest opcode list and the largest program counter explored
MaxPairs == 2

MaxPc == 1

-----------------------------------------------------------------------------
(* Python integers *)

Last(s) == s[Len(s)]

Front(s) == SubSeq(s, 1, Len(s) - 1)

RECURSIVE ByteLen(_)
\* len(s): the number of bytes of a byte string (or digits of a magnitude)
ByteLen(s) ==
    IF s = <<>> THEN 0
    ELSE IF Last(s) < 0 THEN ByteLen(Front(s)) - Last(s)
    ELSE ByteLen(Front(s)) + 1

\* the representation of a byte string given as bytes and runs in any split:
\* adjacent zeros and runs are joined, a run of sixteen or more becomes one
\* element, a shorter one is written byte by byte
Pack(s) ==
    LET Zeros(n) == IF n = 0 THEN <<>>
                    ELSE IF n < 16 THEN [i \in 1..n |-> 0]
                    ELSE <<0 - n>>
        RECURSIVE PackFrom(_, _, _)
        PackFrom(i, z, acc) ==
            IF i > Len(s) THEN acc \o Zeros(z)
            ELSE IF s[i] = 0 THEN PackFrom(i + 1, z + 1, acc)
            ELSE IF s[i] < 0 THEN PackFrom(i + 1, z - s[i], acc)
            ELSE PackFrom(i + 1, 0, acc \o Zeros(z) \o <<s[i]>>)
    IN PackFrom(1, 0, <<>>)

\* the bytes i..j of s (1-based, both included; empty when j < i)
ByteSub(s, i, j) ==
    LET RECURSIVE SubFrom(_, _)
        \* t is what follows the first pos bytes of s
        SubFrom(t, pos) ==
            IF t = <<>> \/ pos >= j THEN <<>>
            ELSE LET n == IF Head(t) < 0 THEN 0 - Head(t) ELSE 1
                     lo == IF i > pos + 1 THEN i ELSE pos + 1
                     hi == IF j < pos + n THEN j ELSE pos + n
                 IN (IF hi < lo THEN <<>>
                     ELSE IF Head(t) < 0 THEN <<lo - hi - 1>>
                     ELSE <<Head(t)>>) \o SubFrom(Tail(t), pos + n)
    IN Pack(SubFrom(s, 0))

RECURSIVE MagNorm(_)
\* the magnitude without its most significant zero digits
MagNorm(m) == IF m = <<>> THEN <<>>
              ELSE IF Last(m) <= 0 THEN MagNorm(Front(m)) ELSE m

MkInt(neg, mag) ==
    LET n == MagNorm(mag) IN [neg |-> neg /\ n # <<>>, mag |-> n]

RECURSIVE NatToMag(_)
NatToMag(n) == IF n = 0 THEN <<>> ELSE <<n % 256>> \o NatToMag(n \div 256)

\* the Python int with the value of the (small) integer n
PyInt(n) == IF n < 0 THEN MkInt(TRUE, NatToMag(0 - n)) ELSE MkInt(FALSE, NatToMag(n))

RECURSIVE MagToNat(_)
MagToNat(m) == IF m = <<>> THEN 0 ELSE Head(m) + 256 * MagToNat(Tail(m))

\* the value of a Python int of magnitude below 2^31, as an integer
ToInt(x) == IF x.neg THEN 0 - MagToNat(x.mag) ELSE MagToNat(x.mag)

\* magnitude below 2^31: representable by ToInt
Fits(x) == ByteLen(x.mag) < 4 \/ (ByteLen(x.mag) = 4 /\ Last(x.mag) < 128)

RECURSIVE MagCmpEq(_, _)
\* compares magnitudes of the same length, most significant digit first; two
\* runs of zero digits are passed in one step
MagCmpEq(a, b) ==
    LET \* m without its k most significant digits (k = 1, or within a run)
        DropTop(m, k) == IF Last(m) + k < 0 THEN Front(m) \o <<Last(m) + k>>
                      ELSE Front(m)
        TopDigit(m) == IF Last(m) < 0 THEN 0 ELSE Last(m)
    IN IF a = <<>> \/ b = <<>> THEN 0
       ELSE IF Last(a) < 0 /\ Last(b) < 0
            THEN LET k == IF Last(a) > Last(b) THEN 0 - Last(a) ELSE 0 - Last(b)
                 IN MagCmpEq(DropTop(a, k), DropTop(b, k))
       ELSE IF TopDigit(a) < TopDigit(b) THEN 0 - 1
       ELSE IF TopDigit(a) > TopDigit(b) THEN 1
       ELSE MagCmpEq(DropTop(a, 1), DropTop(b, 1))

MagCmp(a, b) ==
    IF ByteLen(a) < ByteLen(b) THEN 0 - 1
    ELSE IF ByteLen(a) > ByteLen(b) THEN 1
    ELSE MagCmpEq(a, b)

RECURSIVE MagAddC(_, _, _)
\* a + b + carry, least significant digit first; where both numbers are in a
\* run of zero digits and nothing is carried, the run is passed in one step
MagAddC(a, b, c) ==
    LET \* m without its k least significant digits (k = 1, or within a run)
        DropLow(m, k) == IF m = <<>> THEN m
                      ELSE IF Head(m) + k < 0 THEN <<Head(m) + k>> \o Tail(m)
                      ELSE Tail(m)
        LowDigit(m) == IF m = <<>> THEN 0 ELSE IF Head(m) < 0 THEN 0 ELSE Head(m)
    IN IF a = <<>> /\ b = <<>> THEN (IF c = 0 THEN <<>> ELSE <<c>>)
       ELSE IF c = 0 /\ a = <<>> THEN b
       ELSE IF c = 0 /\ b = <<>> THEN a
       ELSE IF c = 0 /\ Head(a) < 0 /\ Head(b) < 0
            THEN LET k == IF Head(a) > Head(b) THEN 0 - Head(a) ELSE 0 - Head(b)
                 IN <<0 - k>> \o MagAddC(DropLow(a, k), DropLow(b, k), 0)
       ELSE LET s == LowDigit(a) + LowDigit(b) + c
            IN <<s % 256>> \o MagAddC(DropLow(a, 1), DropLow(b, 1), s \div 256)

MagAdd(a, b) == MagAddC(a, b, 0)

RECURSIVE MagSubB(_, _, _)
\* a - b - borrow, for a >= b, of magnitudes written digit by digit
MagSubB(a, b, w) ==
    IF a = <<>> THEN <<>>
    ELSE LET y == IF b = <<>> THEN 0 ELSE Head(b)
             d == Head(a) - y - w
         IN <<IF d < 0 THEN d + 256 ELSE d>>
            \o MagSubB(Tail(a), IF b = <<>> THEN <<>> ELSE Tail(b),
                       IF d < 0 THEN 1 ELSE 0)

MagSub(a, b) == MagNorm(MagSubB(a, b, 0))

RECURSIVE MagMulDigit(_, _, _)
MagMulDigit(a, d, c) ==
    IF a = <<>> THEN (IF c = 0 THEN <<>> ELSE <<c>>)
    ELSE LET p == Head(a) * d + c
         IN <<p % 256>> \o MagMulDigit(Tail(a), d, p \div 256)

RECURSIVE MagMul(_, _)
MagMul(a, b) ==
    IF b = <<>> THEN <<>>
    ELSE MagAdd(MagMulDigit(a, Head(b), 0), <<0>> \o MagMul(a, Tail(b)))

RECURSIVE MagShl(_, _)
MagShl(a, n) == IF n = 0 THEN a ELSE MagShl(MagAdd(a, a), n - 1)

PyZero == [neg |-> FALSE, mag |-> <<>>]

PyNeg(x) == MkInt(~x.neg, x.mag)

PyAbs(x) == MkInt(FALSE, x.mag)

PyAdd(x, y) ==
    IF x.neg = y.neg THEN MkInt(x.neg, Pack(MagAdd(x.mag, y.mag)))
    ELSE IF MagCmp(x.mag, y.mag) >= 0 THEN MkInt(x.neg, MagSub(x.mag, y.mag))
    ELSE MkInt(y.neg, MagSub(y.mag, x.mag))

PySub(x, y) == PyAdd(x, PyNeg(y))

PyMul(x, y) == MkInt(x.neg # y.neg, MagMul(x.mag, y.mag))

\* x < y
PyLess(x, y) ==
    IF x.neg /\ ~y.neg THEN TRUE
    ELSE IF ~x.neg /\ y.neg THEN FALSE
    ELSE IF x.neg THEN MagCmp(x.mag, y.mag) > 0
    ELSE MagCmp(x.mag, y.mag) < 0

PyLeq(x, y) == ~PyLess(y, x)

\* truth value of a Python int
PyTruth(x) == x # PyZero

PyMin(x, y) == IF PyLess(y, x) THEN y ELSE x

PyMax(x, y) == IF PyLess(x, y) THEN y ELSE x

AbsInt(n) == IF n < 0 THEN 0 - n ELSE n

\* floor(a / b) for integers below 2^31 in magnitude, b # 0
FloorDivInt(a, b) ==
    LET q == AbsInt(a) \div AbsInt(b)
        exact == (AbsInt(a) % AbsInt(b)) = 0
    IN IF (a < 0) = (b < 0) \/ a = 0 THEN q
       ELSE IF exact THEN 0 - q ELSE 0 - q - 1

\* a - b * floor(a / b) for integers below 2^31 in magnitude, b # 0
FloorModInt(a, b) ==
    LET r == AbsInt(a) % AbsInt(b)
    IN IF r = 0 THEN 0
       ELSE IF a > 0 /\ b > 0 THEN r
       ELSE IF a < 0 /\ b < 0 THEN 0 - r
       ELSE IF a > 0 THEN r + b
       ELSE b - r

RECURSIVE Pow2(_)
Pow2(n) == IF n = 0 THEN 1 ELSE 2 * Pow2(n - 1)

\* as PyFloorDiv, but rounding toward zero
PyTruncDiv(x, y) ==
    LET a == ToInt(x)
        b == ToInt(y)
        q == AbsInt(a) \div AbsInt(b)
    IN PyInt(IF (a < 0) = (b < 0) THEN q ELSE 0 - q)

\* x // y of two operands that passed the four-byte bound, y # 0
PyFloorDiv(x, y) == PyInt(FloorDivInt(ToInt(x), ToInt(y)))

\* x % y of two operands that passed the four-byte bound, y # 0
PyMod(x, y) == PyInt(FloorModInt(ToInt(x), ToInt(y)))

\* x << y for 0 <= y < 2^31: the magnitude of x doubled y % 8 times, above
\* y / 8 zero digits; the sign is that of x
PyLshift(x, y) ==
    LET n == ToInt(y)
    IN MkInt(x.neg, Pack((IF n < 8 THEN <<>> ELSE <<0 - (n \div 8)>>)
                         \o MagShl(x.mag, n % 8)))

\* x >> y of two operands that passed the four-byte bound, y >= 0
PyRshift(x, y) ==
    IF PyLess(PyInt(30), y) THEN (IF x.neg THEN PyInt(0 - 1) ELSE PyZero)
    ELSE PyInt(FloorDivInt(ToInt(x), Pow2(ToInt(y))))

-----------------------------------------------------------------------------
(* Outcomes of a call: exc is "none" or the kind of exception raised, errno *)
(* the symbolic code a ScriptError carries.                                 *)

Ret(v) == [exc |-> "none", errno |-> "none", val |-> v]

Raise(kind, code) == [exc |-> kind, errno |-> code, val |-> PyZero]

Ok(st) == [stack |-> st, exc |-> "none", errno |-> "none"]

Fail(st, kind, code) == [stack |-> st, exc |-> kind, errno |-> code]

\* the outcome of a failed pop, without the value
Res(p) == [stack |-> p.stack, exc |-> p.exc, errno |-> p.errno]

-----------------------------------------------------------------------------
(* Numeric codec (IntStreamer and the VM's boolean conversions) *)

\* the item is the shortest encoding of its value
IsMinimal(s) ==
    IF s = <<>> THEN TRUE
    ELSE IF Last(s) < 0 THEN FALSE
    ELSE IF (Last(s) % 128) # 0 THEN TRUE
    ELSE IF Len(s) > 1 THEN s[Len(s) - 1] >= 128
    ELSE FALSE

\* sign-magnitude little-endian decoding; the sign is the high bit of the last byte
int_from_script_bytes(s, require_minimal) ==
    IF s = <<>> THEN Ret(PyZero)
    ELSE IF require_minimal /\ ~IsMinimal(s) THEN Raise("ScriptError", "ENCODING")
    ELSE IF Last(s) < 0 THEN Ret(MkInt(FALSE, s))
    ELSE Ret(MkInt(Last(s) >= 128, Front(s) \o <<Last(s) % 128>>))

\* the minimal sign-magnitude little-endian encoding
int_to_script_bytes(v) ==
    IF v.mag = <<>> THEN <<>>
    ELSE IF Last(v.mag) >= 128 THEN v.mag \o <<IF v.neg THEN 128 ELSE 0>>
    ELSE Front(v.mag) \o <<Last(v.mag) + (IF v.neg THEN 128 ELSE 0)>>

nonnegative_int_from_script_bytes(s, require_minimal) ==
    LET d == int_from_script_bytes(s, require_minimal)
    IN IF d.exc # "none" THEN d
       ELSE IF d.val.neg THEN Raise("ScriptError", "NEGATIVE")
       ELSE d

\* true iff some byte is non-zero, negative zero excepted
bool_from_script_bytes(s, require_minimal) ==
    int_from_script_bytes(s, FALSE).val # PyZero

VM_TRUE == <<1>>

VM_FALSE == <<>>

bool_to_script_bytes(b) == IF b THEN VM_TRUE ELSE VM_FALSE

-----------------------------------------------------------------------------
(* The data stack: the top of the stack is the last element *)

VERIFY_MINIMALDATA == "VERIFY_MINIMALDATA"

RequireMinimal(fl) == VERIFY_MINIMALDATA \in fl

\* vm.stack.pop()
stack_pop(st) ==
    IF st = <<>>
    THEN [stack |-> st, exc |-> "ScriptError", errno |-> "UNDERFLOW", val |-> <<>>]
    ELSE [stack |-> Front(st), exc |-> "none", errno |-> "none", val |-> Last(st)]

\* int_from_script_bytes(vm.stack.pop(), require_minimal=vm.flags & VERIFY_MINIMALDATA)
pop_int(st, fl) ==
    LET p == stack_pop(st)
    IN IF p.exc # "none" THEN [p EXCEPT !.val = PyZero]
       ELSE LET d == int_from_script_bytes(p.val, RequireMinimal(fl))
            IN [stack |-> p.stack, exc |-> d.exc, errno |-> d.errno, val |-> d.val]

\* nonnegative_int_from_script_bytes(vm.stack.pop(), require_minimal=...)
pop_nonnegative_int(st, fl) ==
    LET p == stack_pop(st)
    IN IF p.exc # "none" THEN [p EXCEPT !.val = PyZero]
       ELSE LET d == nonnegative_int_from_script_bytes(p.val, RequireMinimal(fl))
            IN [stack |-> p.stack, exc |-> d.exc, errno |-> d.errno, val |-> d.val]

\* min(x, n) for a non-negative Python int x and a length n
Clamp(x, n) == IF PyLess(x, PyInt(n)) THEN ToInt(x) ELSE n

\* s[lo:hi] for non-negative lo and hi
PySlice(s, lo, hi) ==
    LET a == Clamp(lo, ByteLen(s))
        b == Clamp(hi, ByteLen(s))
    IN IF a < b THEN ByteSub(s, a + 1, b) ELSE <<>>

\* s[-n:] for n > 0
PyTail(s, n) ==
    LET k == Clamp(n, ByteLen(s)) IN ByteSub(s, ByteLen(s) - k + 1, ByteLen(s))

-----------------------------------------------------------------------------
(* Opcode handlers, as functions from the data stack and the flags to the  *)
(* stack left behind and the exception raised, if any.                      *)

OP_VERIFY(st, fl) ==
    LET p == stack_pop(st)
    IN IF p.exc # "none" THEN Res(p)
       ELSE IF ~bool_from_script_bytes(p.val, FALSE)
            THEN Fail(p.stack, "ScriptError", "VERIFY")
       ELSE Ok(p.stack)

OP_DEPTH(st, fl) == Ok(Append(st, int_to_script_bytes(PyInt(Len(st)))))

\* as OP_PICK, but indexing with -v instead of -v-1
OP_PICK_off_by_one(st, fl) ==
    LET p == pop_nonnegative_int(st, fl)
    IN IF p.exc # "none" THEN Res(p)
       ELSE IF PyLess(PyInt(Len(p.stack)), p.val) \/ p.stack = <<>>
            THEN Fail(p.stack, "ScriptError", "UNDERFLOW")
       ELSE IF p.val = PyZero THEN Ok(Append(p.stack, p.stack[1]))
       ELSE Ok(Append(p.stack, p.stack[Len(p.stack) - ToInt(p.val) + 1]))

OP_PICK(st, fl) ==
    LET p == pop_nonnegative_int(st, fl)
    IN IF p.exc # "none" THEN Res(p)
       \* vm.stack[-v-1]
       ELSE IF ~PyLess(p.val, PyInt(Len(p.stack)))
            THEN Fail(p.stack, "ScriptError", "UNDERFLOW")
       ELSE Ok(Append(p.stack, p.stack[Len(p.stack) - ToInt(p.val)]))

\* list.pop takes its index as a machine word (64 bits, signed): the index
\* -v-1 of a non-negative v fits when v < 2^63, that is when v has at most seven
\* digits, or eight with the top one below 128
FitsIndex(v) ==
    \/ ByteLen(v.mag) <= 7
    \/ ByteLen(v.mag) = 8 /\ Last(v.mag) < 128

OP_ROLL(st, fl) ==
    LET p == pop_nonnegative_int(st, fl)
    IN IF p.exc # "none" THEN Res(p)
       \* vm.stack.pop(-v-1): the index is converted before it is looked up
       ELSE IF ~FitsIndex(p.val)
            THEN Fail(p.stack, "OverflowError", "none")
       ELSE IF ~PyLess(p.val, PyInt(Len(p.stack)))
            THEN Fail(p.stack, "ScriptError", "UNDERFLOW")
       ELSE LET i == Len(p.stack) - ToInt(p.val)
            IN Ok(SubSeq(p.stack, 1, i - 1) \o SubSeq(p.stack, i + 1, Len(p.stack))
                  \o <<p.stack[i]>>)

\* as OP_SUBSTR, but slicing [pos : pos + length]
OP_SUBSTR_swapped(st, fl) ==
    LET pos == pop_nonnegative_int(st, fl)
    IN IF pos.exc # "none" THEN Res(pos)
       ELSE LET length == pop_nonnegative_int(pos.stack, fl)
            IN IF length.exc # "none" THEN Res(length)
               ELSE LET t == stack_pop(length.stack)
                    IN IF t.exc # "none" THEN Res(t)
                       ELSE Ok(Append(t.stack,
                                      PySlice(t.val, pos.val,
                                              PyAdd(pos.val, length.val))))

OP_SUBSTR(st, fl) ==
    LET pos == pop_nonnegative_int(st, fl)
    IN IF pos.exc # "none" THEN Res(pos)
       ELSE LET length == pop_nonnegative_int(pos.stack, fl)
            IN IF length.exc # "none" THEN Res(length)
               ELSE LET t == stack_pop(length.stack)
                    IN IF t.exc # "none" THEN Res(t)
                       ELSE Ok(Append(t.stack,
                                      PySlice(t.val, length.val,
                                              PyAdd(length.val, pos.val))))

\* as OP_LEFT, but reading the target item without popping it
OP_LEFT_keeps_target(st, fl) ==
    LET pos == pop_nonnegative_int(st, fl)
    IN IF pos.exc # "none" THEN Res(pos)
       ELSE IF pos.stack = <<>> THEN Fail(pos.stack, "ScriptError", "UNDERFLOW")
       ELSE Ok(Append(pos.stack, PySlice(Last(pos.stack), PyZero, pos.val)))

OP_LEFT(st, fl) ==
    LET pos == pop_nonnegative_int(st, fl)
    IN IF pos.exc # "none" THEN Res(pos)
       ELSE LET t == stack_pop(pos.stack)
            IN IF t.exc # "none" THEN Res(t)
               ELSE Ok(Append(t.stack, PySlice(t.val, PyZero, pos.val)))

\* as OP_RIGHT, but without the branch for pos = 0: target[-0:] is the target
OP_RIGHT_unguarded(st, fl) ==
    LET pos == pop_nonnegative_int(st, fl)
    IN IF pos.exc # "none" THEN Res(pos)
       ELSE LET t == stack_pop(pos.stack)
            IN IF t.exc # "none" THEN Res(t)
               ELSE IF PyLess(PyZero, pos.val)
                    THEN Ok(Append(t.stack, PyTail(t.val, pos.val)))
               ELSE Ok(Append(t.stack, t.val))

OP_RIGHT(st, fl) ==
    LET pos == pop_nonnegative_int(st, fl)
    IN IF pos.exc # "none" THEN Res(pos)
       ELSE LET t == stack_pop(pos.stack)
            IN IF t.exc # "none" THEN Res(t)
               ELSE IF PyLess(PyZero, pos.val)
                    THEN Ok(Append(t.stack, PyTail(t.val, pos.val)))
               ELSE Ok(Append(t.stack, <<>>))

\* as OP_SIZE, but popping the item it measures
OP_SIZE_pops(st, fl) ==
    IF st = <<>> THEN Fail(st, "ScriptError", "UNDERFLOW")
    ELSE Ok(Append(Front(st), int_to_script_bytes(PyInt(ByteLen(Last(st))))))

OP_SIZE(st, fl) ==
    \* vm.stack[-1]
    IF st = <<>> THEN Fail(st, "ScriptError", "UNDERFLOW")
    ELSE Ok(Append(st, int_to_script_bytes(PyInt(ByteLen(Last(st))))))

\* b'\0' * n
Nulls(n) == Pack(IF n = 0 THEN <<>> ELSE <<0 - n>>)

make_same_size(v1, v2) ==
    LET larger == IF ByteLen(v1) > ByteLen(v2) THEN ByteLen(v1) ELSE ByteLen(v2)
        nulls == Nulls(larger)
    IN <<ByteSub(Pack(v1 \o nulls), 1, larger), ByteSub(Pack(v2 \o nulls), 1, larger)>>

\* as OP_EQUAL, but comparing the items padded to the same size
OP_EQUAL_padded(st, fl) ==
    LET p1 == stack_pop(st)
    IN IF p1.exc # "none" THEN Res(p1)
       ELSE LET p2 == stack_pop(p1.stack)
            IN IF p2.exc # "none" THEN Res(p2)
               ELSE LET same == make_same_size(p1.val, p2.val)
                    IN Ok(Append(p2.stack, bool_to_script_bytes(same[1] = same[2])))

OP_EQUAL(st, fl) ==
    LET p1 == stack_pop(st)
    IN IF p1.exc # "none" THEN Res(p1)
       ELSE LET p2 == stack_pop(p1.stack)
            IN IF p2.exc # "none" THEN Res(p2)
               ELSE Ok(Append(p2.stack, bool_to_script_bytes(p1.val = p2.val)))

\* as OP_EQUALVERIFY, but raising before the boolean EQUAL pushed is popped
OP_EQUALVERIFY_leaves_boolean(st, fl) ==
    LET e == OP_EQUAL(st, fl)
    IN IF e.exc # "none" THEN e
       ELSE IF ~bool_from_script_bytes(Last(e.stack), FALSE)
            THEN Fail(e.stack, "ScriptError", "EQUALVERIFY")
       ELSE Ok(Front(e.stack))

\* as OP_EQUALVERIFY, but raising with the error code of VERIFY
OP_EQUALVERIFY_verify_code(st, fl) ==
    LET e == OP_EQUAL(st, fl)
    IN IF e.exc # "none" THEN e
       ELSE LET p == stack_pop(e.stack)
            IN IF p.exc # "none" THEN Res(p)
               ELSE IF ~bool_from_script_bytes(p.val, FALSE)
                    THEN Fail(p.stack, "ScriptError", "VERIFY")
               ELSE Ok(p.stack)

OP_EQUALVERIFY(st, fl) ==
    LET e == OP_EQUAL(st, fl)
    IN IF e.exc # "none" THEN e
       ELSE LET p == stack_pop(e.stack)
            IN IF p.exc # "none" THEN Res(p)
               ELSE IF ~bool_from_script_bytes(p.val, FALSE)
                    THEN Fail(p.stack, "ScriptError", "EQUALVERIFY")
               ELSE Ok(p.stack)

\* as pop_check_bounds, but decoding without the minimal-data flag
pop_check_bounds_flag_dropped(st, fl) ==
    LET p == stack_pop(st)
    IN IF p.exc # "none" THEN [p EXCEPT !.val = PyZero]
       ELSE IF ByteLen(p.val) > 4
            THEN [stack |-> p.stack, exc |-> "ScriptError", errno |-> "UNKNOWN_ERROR",
                  val |-> PyZero]
       ELSE LET d == int_from_script_bytes(p.val, FALSE)
            IN [stack |-> p.stack, exc |-> d.exc, errno |-> d.errno, val |-> d.val]

pop_check_bounds(st, fl) ==
    LET p == stack_pop(st)
    IN IF p.exc # "none" THEN [p EXCEPT !.val = PyZero]
       ELSE IF ByteLen(p.val) > 4
            THEN [stack |-> p.stack, exc |-> "ScriptError", errno |-> "UNKNOWN_ERROR",
                  val |-> PyZero]
       ELSE LET d == int_from_script_bytes(p.val, RequireMinimal(fl))
            IN [stack |-> p.stack, exc |-> d.exc, errno |-> d.errno, val |-> d.val]

lambda_ADD(x, y) == Ret(PyAdd(x, y))

lambda_SUB(x, y) == Ret(PySub(x, y))

lambda_MUL(x, y) == Ret(PyMul(x, y))

lambda_DIV(x, y) ==
    IF y = PyZero THEN Raise("ZeroDivisionError", "none") ELSE Ret(PyFloorDiv(x, y))

lambda_MOD(x, y) ==
    IF y = PyZero THEN Raise("ZeroDivisionError", "none") ELSE Ret(PyMod(x, y))

lambda_LSHIFT(x, y) ==
    IF y.neg THEN Raise("ValueError", "none") ELSE Ret(PyLshift(x, y))

lambda_RSHIFT(x, y) ==
    IF y.neg THEN Raise("ValueError", "none") ELSE Ret(PyRshift(x, y))

\* the truth value of Python's (x and y)
lambda_BOOLAND(x, y) == PyTruth(IF PyTruth(x) THEN y ELSE x)

\* the truth value of Python's (x or y)
lambda_BOOLOR(x, y) == PyTruth(IF PyTruth(x) THEN x ELSE y)

lambda_NUMEQUAL(x, y) == x = y

lambda_NUMNOTEQUAL(x, y) == x # y

lambda_LESSTHAN(x, y) == PyLess(x, y)

lambda_GREATERTHAN(x, y) == PyLess(y, x)

lambda_LESSTHANOREQUAL(x, y) == PyLeq(x, y)

lambda_GREATERTHANOREQUAL(x, y) == PyLeq(y, x)

lambda_MIN(x, y) == Ret(PyMin(x, y))

lambda_MAX(x, y) == Ret(PyMax(x, y))

\* the call binop(x, y) of the function a handler was made from, named by its opcode
call_binop(binop, x, y) ==
    CASE binop = "ADD" -> lambda_ADD(x, y)
      [] binop = "SUB" -> lambda_SUB(x, y)
      [] binop = "MUL" -> lambda_MUL(x, y)
      [] binop = "DIV" -> lambda_DIV(x, y)
      [] binop = "MOD" -> lambda_MOD(x, y)
      [] binop = "LSHIFT" -> lambda_LSHIFT(x, y)
      [] binop = "RSHIFT" -> lambda_RSHIFT(x, y)
      [] binop = "MIN" -> lambda_MIN(x, y)
      [] binop = "MAX" -> lambda_MAX(x, y)

call_bool_binop(binop, x, y) ==
    CASE binop = "BOOLAND" -> lambda_BOOLAND(x, y)
      [] binop = "BOOLOR" -> lambda_BOOLOR(x, y)
      [] binop = "NUMEQUAL" -> lambda_NUMEQUAL(x, y)
      [] binop = "NUMNOTEQUAL" -> lambda_NUMNOTEQUAL(x, y)
      [] binop = "LESSTHAN" -> lambda_LESSTHAN(x, y)
      [] binop = "GREATERTHAN" -> lambda_GREATERTHAN(x, y)
      [] binop = "LESSTHANOREQUAL" -> lambda_LESSTHANOREQUAL(x, y)
      [] binop = "GREATERTHANOREQUAL" -> lambda_GREATERTHANOREQUAL(x, y)

\* as make_bin_op, but with a result that needs more than four bytes clamped
\* to the largest four-byte operand of its sign
make_bin_op_clamped(binop, st, fl) ==
    LET v1 == pop_check_bounds(st, fl)
    IN IF v1.exc # "none" THEN Res(v1)
       ELSE LET v2 == pop_check_bounds(v1.stack, fl)
            IN IF v2.exc # "none" THEN Res(v2)
               ELSE LET r == call_binop(binop, v2.val, v1.val)
                        b == int_to_script_bytes(r.val)
                    IN IF r.exc # "none" THEN Fail(v2.stack, r.exc, r.errno)
                       ELSE IF ByteLen(b) > 4
                            THEN Ok(Append(v2.stack,
                                           <<255, 255, 255, IF r.val.neg THEN 255 ELSE 127>>))
                       ELSE Ok(Append(v2.stack, b))

\* as make_bin_op, but binop is called with the first-popped value first
make_bin_op_swapped(binop, st, fl) ==
    LET v1 == pop_check_bounds(st, fl)
    IN IF v1.exc # "none" THEN Res(v1)
       ELSE LET v2 == pop_check_bounds(v1.stack, fl)
            IN IF v2.exc # "none" THEN Res(v2)
               ELSE LET r == call_binop(binop, v1.val, v2.val)
                    IN IF r.exc # "none" THEN Fail(v2.stack, r.exc, r.errno)
                       ELSE Ok(Append(v2.stack, int_to_script_bytes(r.val)))

\* binop is called with the second-popped value first
make_bin_op(binop, st, fl) ==
    LET v1 == pop_check_bounds(st, fl)
    IN IF v1.exc # "none" THEN Res(v1)
       ELSE LET v2 == pop_check_bounds(v1.stack, fl)
            IN IF v2.exc # "none" THEN Res(v2)
               ELSE LET r == call_binop(binop, v2.val, v1.val)
                    IN IF r.exc # "none" THEN Fail(v2.stack, r.exc, r.errno)
                       ELSE Ok(Append(v2.stack, int_to_script_bytes(r.val)))

make_bool_bin_op(binop, st, fl) ==
    LET v1 == pop_check_bounds(st, fl)
    IN IF v1.exc # "none" THEN Res(v1)
       ELSE LET v2 == pop_check_bounds(v1.stack, fl)
            IN IF v2.exc # "none" THEN Res(v2)
               ELSE LET r == call_bool_binop(binop, v2.val, v1.val)
                    IN Ok(Append(v2.stack, bool_to_script_bytes(r)))

OP_NUMEQUAL(st, fl) == make_bool_bin_op("NUMEQUAL", st, fl)

\* as OP_NUMEQUALVERIFY, but comparing the raw bytes of the operands
OP_NUMEQUALVERIFY_raw_bytes(st, fl) ==
    LET e == OP_EQUAL(st, fl)
    IN IF e.exc # "none" THEN e ELSE OP_VERIFY(e.stack, fl)

OP_NUMEQUALVERIFY(st, fl) ==
    LET e == OP_NUMEQUAL(st, fl)
    IN IF e.exc # "none" THEN e ELSE OP_VERIFY(e.stack, fl)

\* as OP_WITHIN, but with the upper bound included
OP_WITHIN_closed(st, fl) ==
    LET v3 == pop_int(st, fl)
    IN IF v3.exc # "none" THEN Res(v3)
       ELSE LET v2 == pop_int(v3.stack, fl)
            IN IF v2.exc # "none" THEN Res(v2)
               ELSE LET v1 == pop_int(v2.stack, fl)
                    IN IF v1.exc # "none" THEN Res(v1)
                       ELSE LET ok == PyLeq(v2.val, v1.val) /\ PyLeq(v1.val, v3.val)
                            IN Ok(Append(v1.stack, bool_to_script_bytes(ok)))

OP_WITHIN(st, fl) ==
    LET v3 == pop_int(st, fl)
    IN IF v3.exc # "none" THEN Res(v3)
       ELSE LET v2 == pop_int(v3.stack, fl)
            IN IF v2.exc # "none" THEN Res(v2)
               ELSE LET v1 == pop_int(v2.stack, fl)
                    IN IF v1.exc # "none" THEN Res(v1)
                       ELSE LET ok == PyLeq(v2.val, v1.val) /\ PyLess(v1.val, v3.val)
                            IN Ok(Append(v1.stack, bool_to_script_bytes(ok)))

lambda_1ADD(x) == PyAdd(x, PyInt(1))

lambda_1SUB(x) == PySub(x, PyInt(1))

lambda_2MUL(x) == PyLshift(x, PyInt(1))

lambda_2DIV(x) == PyRshift(x, PyInt(1))

lambda_NEGATE(x) == PyNeg(x)

lambda_ABS(x) == PyAbs(x)

\* the call unary_f(x) of the function a handler was made from, named by its opcode
call_unary(unary_f, x) ==
    CASE unary_f = "1ADD" -> lambda_1ADD(x)
      [] unary_f = "1SUB" -> lambda_1SUB(x)
      [] unary_f = "2MUL" -> lambda_2MUL(x)
      [] unary_f = "2DIV" -> lambda_2DIV(x)
      [] unary_f = "NEGATE" -> lambda_NEGATE(x)
      [] unary_f = "ABS" -> lambda_ABS(x)

make_unary_num_op(unary_f, st, fl) ==
    LET v == pop_check_bounds(st, fl)
    IN IF v.exc # "none" THEN Res(v)
       ELSE Ok(Append(v.stack, int_to_script_bytes(call_unary(unary_f, v.val))))

OP_NOT(st, fl) ==
    LET v == pop_check_bounds(st, fl)
    IN IF v.exc # "none" THEN Res(v)
       ELSE Ok(Append(v.stack, bool_to_script_bytes(~PyTruth(v.val))))

\* as OP_0NOTEQUAL, but popping its operand through the bounds check as NOT does
OP_0NOTEQUAL_bounds_checked(st, fl) ==
    LET v == pop_check_bounds(st, fl)
    IN IF v.exc # "none" THEN Res(v)
       ELSE Ok(Append(v.stack,
                      int_to_script_bytes(IF PyTruth(v.val) THEN PyInt(1) ELSE PyInt(0))))

OP_0NOTEQUAL(st, fl) ==
    LET p == stack_pop(st)
    IN IF p.exc # "none" THEN Res(p)
       ELSE Ok(Append(p.stack,
                      int_to_script_bytes(
                          IF bool_from_script_bytes(p.val, RequireMinimal(fl))
                          THEN PyInt(1) ELSE PyInt(0))))

-----------------------------------------------------------------------------
(* BCash signature hash *)

RECURSIVE BitAnd(_, _)
BitAnd(a, b) ==
    IF a = 0 \/ b = 0 THEN 0
    ELSE (a % 2) * (b % 2) + 2 * BitAnd(a \div 2, b \div 2)

SIGHASH_FORKID == 64

\* the digest of the segwit-style algorithm, represented by what it commits to
signature_for_hash_type_segwit(tx, script, tx_in_idx, hash_type) ==
    [exc |-> "none", digest |-> <<"segwit", tx, script, tx_in_idx, hash_type>>]

\* as signature_hash, but the fork bit is cleared before the digest is computed
signature_hash_strips_bit(tx, tx_out_script, unsigned_txs_out_idx, hash_type) ==
    IF BitAnd(hash_type, SIGHASH_FORKID) # SIGHASH_FORKID
    THEN [exc |-> "ScriptError", digest |-> <<>>]
    ELSE signature_for_hash_type_segwit(tx, tx_out_script, unsigned_txs_out_idx,
                                        hash_type - SIGHASH_FORKID)

signature_hash(tx, tx_out_script, unsigned_txs_out_idx, hash_type) ==
    IF BitAnd(hash_type, SIGHASH_FORKID) # SIGHASH_FORKID
    THEN [exc |-> "ScriptError", digest |-> <<>>]
    ELSE signature_for_hash_type_segwit(tx, tx_out_script, unsigned_txs_out_idx,
                                        hash_type)

-----------------------------------------------------------------------------
(* The instruction lookup of the Bitcoin VM.  A handler is a record naming *)
(* the function object held in a slot; a dict is a function on its keys.    *)

\* the function f returned by _make_bad_instruction(v)
make_bad_instruction(v) ==
    [kind |-> "bad_instruction", module |-> "VM", name |-> "f", v |-> v]

\* the function _no_op
no_op == [kind |-> "no_op", module |-> "VM", name |-> "_no_op", v |-> 0]

\* getattr(module, k) for an attribute k = <<k[:3], k[3:5], k[5:]>> of a module
getattr(module, k) ==
    [kind |-> "handler", module |-> module, name |-> k[1] \o k[2] \o k[3], v |-> 0]

\* d.update(e)
dict_update(d, e) ==
    [k \in DOMAIN d \cup DOMAIN e |-> IF k \in DOMAIN e THEN e[k] ELSE d[k]]

\* the attributes of a module whose names start with "do_OP", keyed by k[3:]
collect_opcodes(module, dir) ==
    LET ks == {k \in dir : k[1] = "do_" /\ k[2] = "OP"}
    IN [n \in {k[2] \o k[3] : k \in ks} |->
           getattr(module, CHOOSE k \in ks : k[2] \o k[3] = n)]

\* the names of the handlers intops defines
intops_handlers ==
    {"_VERIFY", "_DEPTH", "_PICK", "_ROLL", "_SUBSTR", "_LEFT", "_RIGHT", "_SIZE",
     "_EQUAL", "_EQUALVERIFY", "_ADD", "_SUB", "_MUL", "_DIV", "_MOD", "_LSHIFT",
     "_RSHIFT", "_BOOLAND", "_BOOLOR", "_NUMEQUAL", "_NUMNOTEQUAL", "_LESSTHAN",
     "_GREATERTHAN", "_LESSTHANOREQUAL", "_GREATERTHANOREQUAL", "_MIN", "_MAX",
     "_NUMEQUALVERIFY", "_WITHIN", "_1ADD", "_1SUB", "_2MUL", "_2DIV", "_NEGATE",
     "_ABS", "_NOT", "_0NOTEQUAL"}

\* dir(intops): the handlers, and the helpers and imports beside them
intops_dir ==
    {<<"do_", "OP", n>> : n \in intops_handlers}
        \cup {<<"pop", "_c", "heck_bounds">>, <<"mak", "e_", "bin_op">>,
              <<"mak", "e_", "bool_bin_op">>, <<"mak", "e_", "unary_num_op">>,
              <<"mak", "e_", "same_size">>, <<"err", "no", "">>,
              <<"Scr", "ip", "tError">>, <<"VER", "IF", "Y_MINIMALDATA">>}

\* dir(checksigops)
checksigops_dir ==
    {<<"do_", "OP", "_CHECKSIG">>, <<"do_", "OP", "_CHECKSIGVERIFY">>,
     <<"che", "ck", "sig">>}

\* stackops.all_opcodes()
stackops_all_opcodes ==
    [n \in {"OP_DUP", "OP_DROP"} |->
        [kind |-> "handler", module |-> "stackops", name |-> n, v |-> 0]]

\* miscops.all_opcodes()
miscops_all_opcodes ==
    [n \in {"OP_NOP", "OP_CODESEPARATOR"} |->
        [kind |-> "handler", module |-> "miscops", name |-> n, v |-> 0]]

\* the handler registry: the four groups, a later group overriding an earlier
opcode_lookups ==
    dict_update(
        dict_update(
            dict_update(collect_opcodes("checksigops", checksigops_dir),
                        collect_opcodes("intops", intops_dir)),
            stackops_all_opcodes),
        miscops_all_opcodes)

RECURSIVE install_pairs(_, _, _)

\* for opcode_name, opcode_value in opcode_pairs[k..]: install the handler of
\* a registered name; an unregistered name is skipped
install_pairs(lookup, pairs, k) ==
    IF k > Len(pairs) THEN lookup
    ELSE LET opcode_name == pairs[k][1]
             opcode_value == pairs[k][2]
         IN install_pairs(
                IF opcode_name \in DOMAIN opcode_lookups
                THEN [lookup EXCEPT ![opcode_value] = opcode_lookups[opcode_name]]
                ELSE lookup,
                pairs, k + 1)

\* as make_instruction_lookup, but with the data-push slots set after the
\* named handlers
make_instruction_lookup_data_last(pairs, data_list) ==
    LET bad == [i \in 0..255 |-> make_bad_instruction(i)]
        named == install_pairs(bad, pairs, 1)
    IN [i \in 0..255 |-> IF i \in data_list THEN no_op ELSE named[i]]

make_instruction_lookup(pairs, data_list) ==
    LET bad == [i \in 0..255 |-> make_bad_instruction(i)]
        data == [i \in 0..255 |-> IF i \in data_list THEN no_op ELSE bad[i]]
    IN install_pairs(data, pairs, 1)

\* "%02x" % v, as its two characters
hex_digit(d) ==
    <<"0", "1", "2", "3", "4", "5", "6", "7", "8", "9", "a", "b", "c", "d", "e", "f">>[d + 1]

hex02(v) == <<hex_digit(v \div 16), hex_digit(v % 16)>>

\* f(vm_state) of a bad instruction: the message and the error code raised
bad_instruction_call(h, vm_pc) ==
    [exc |-> "ScriptError", errno |-> "BAD_OPCODE",
     msg |-> <<"invalid instruction x", hex02(h.v), " at ", vm_pc>>]

-----------------------------------------------------------------------------
(* The state machine: one evaluation of at most MaxSteps handler calls on a *)
(* data stack; a call that raises ends the evaluation.                      *)

abcdef == <<97, 98, 99, 100, 101, 102>>

maxint4 == <<255, 255, 255, 127>>

\* the items an evaluation starts with: the minimal encodings of 0, 1, 2, 3, -7
\* and 2^31 - 1 (the largest four-byte operand), the non-minimal encoding 0x0100
\* of 1, and a six-byte string
Items == {<<>>, <<1>>, <<2>>, <<3>>, <<135>>, <<1, 0>>, maxint4, abcdef}

Stacks == UNION {[1..n -> Items] : n \in 0..MaxDepth}

ShIdle == [tx |-> "none", script |-> <<>>, idx |-> 0, hash_type |-> 0,
           called |-> FALSE, exc |-> "none", digest |-> <<>>]

Init ==
    /\ stack \in Stacks
    /\ flags \in SUBSET {VERIFY_MINIMALDATA}
    /\ pc = 0
    /\ exc = "none"
    /\ errno = "none"
    /\ op = "none"
    /\ pre = <<>>
    /\ steps = 0
    /\ sh = ShIdle
    /\ opcode_pairs = <<>>
    /\ OPCODE_DATA_LIST = {}
    /\ INSTRUCTION_LOOKUP = <<>>
    /\ opcode = -1
    /\ msg = <<>>

\* the evaluation goes on: no call has raised, and the step bound is not reached
Running == exc = "none" /\ steps < MaxSteps

\* the instruction at pc is dispatched to its handler, which leaves outcome r
Call(name, r) ==
    /\ stack' = r.stack
    /\ exc' = r.exc
    /\ errno' = r.errno
    /\ op' = name
    /\ pre' = stack
    /\ steps' = steps + 1
    /\ UNCHANGED <<flags, pc, sh, lookup_vars>>

do_OP_VERIFY == Running /\ Call("VERIFY", OP_VERIFY(stack, flags))

do_OP_DEPTH == Running /\ Call("DEPTH", OP_DEPTH(stack, flags))

do_OP_PICK == Running /\ Call("PICK", OP_PICK(stack, flags))

do_OP_ROLL == Running /\ Call("ROLL", OP_ROLL(stack, flags))

do_OP_SUBSTR == Running /\ Call("SUBSTR", OP_SUBSTR(stack, flags))

do_OP_LEFT == Running /\ Call("LEFT", OP_LEFT(stack, flags))

do_OP_RIGHT == Running /\ Call("RIGHT", OP_RIGHT(stack, flags))

do_OP_SIZE == Running /\ Call("SIZE", OP_SIZE(stack, flags))

do_OP_EQUAL == Running /\ Call("EQUAL", OP_EQUAL(stack, flags))

do_OP_EQUALVERIFY == Running /\ Call("EQUALVERIFY", OP_EQUALVERIFY(stack, flags))

do_OP_ADD == Running /\ Call("ADD", make_bin_op("ADD", stack, flags))

do_OP_SUB == Running /\ Call("SUB", make_bin_op("SUB", stack, flags))

do_OP_MUL == Running /\ Call("MUL", make_bin_op("MUL", stack, flags))

do_OP_DIV == Running /\ Call("DIV", make_bin_op("DIV", stack, flags))

do_OP_MOD == Running /\ Call("MOD", make_bin_op("MOD", stack, flags))

do_OP_LSHIFT == Running /\ Call("LSHIFT", make_bin_op("LSHIFT", stack, flags))

do_OP_RSHIFT == Running /\ Call("RSHIFT", make_bin_op("RSHIFT", stack, flags))

do_OP_BOOLAND == Running /\ Call("BOOLAND", make_bool_bin_op("BOOLAND", stack, flags))

do_OP_BOOLOR == Running /\ Call("BOOLOR", make_bool_bin_op("BOOLOR", stack, flags))

do_OP_NUMEQUAL == Running /\ Call("NUMEQUAL", OP_NUMEQUAL(stack, flags))

do_OP_NUMNOTEQUAL == Running /\ Call("NUMNOTEQUAL", make_bool_bin_op("NUMNOTEQUAL", stack, flags))

do_OP_LESSTHAN == Running /\ Call("LESSTHAN", make_bool_bin_op("LESSTHAN", stack, flags))

do_OP_GREATERTHAN == Running /\ Call("GREATERTHAN", make_bool_bin_op("GREATERTHAN", stack, flags))

do_OP_LESSTHANOREQUAL == Running /\ Call("LESSTHANOREQUAL", make_bool_bin_op("LESSTHANOREQUAL", stack, flags))

do_OP_GREATERTHANOREQUAL == Running /\ Call("GREATERTHANOREQUAL", make_bool_bin_op("GREATERTHANOREQUAL", stack, flags))

do_OP_MIN == Running /\ Call("MIN", make_bin_op("MIN", stack, flags))

do_OP_MAX == Running /\ Call("MAX", make_bin_op("MAX", stack, flags))

do_OP_NUMEQUALVERIFY == Running /\ Call("NUMEQUALVERIFY", OP_NUMEQUALVERIFY(stack, flags))

do_OP_WITHIN == Running /\ Call("WITHIN", OP_WITHIN(stack, flags))

do_OP_1ADD == Running /\ Call("1ADD", make_unary_num_op("1ADD", stack, flags))

do_OP_1SUB == Running /\ Call("1SUB", make_unary_num_op("1SUB", stack, flags))

do_OP_2MUL == Running /\ Call("2MUL", make_unary_num_op("2MUL", stack, flags))

do_OP_2DIV == Running /\ Call("2DIV", make_unary_num_op("2DIV", stack, flags))

do_OP_NEGATE == Running /\ Call("NEGATE", make_unary_num_op("NEGATE", stack, flags))

do_OP_ABS == Running /\ Call("ABS", make_unary_num_op("ABS", stack, flags))

do_OP_NOT == Running /\ Call("NOT", OP_NOT(stack, flags))

do_OP_0NOTEQUAL == Running /\ Call("0NOTEQUAL", OP_0NOTEQUAL(stack, flags))

Next ==
    \/ do_OP_VERIFY
    \/ do_OP_DEPTH
    \/ do_OP_PICK
    \/ do_OP_ROLL
    \/ do_OP_SUBSTR
    \/ do_OP_LEFT
    \/ do_OP_RIGHT
    \/ do_OP_SIZE
    \/ do_OP_EQUAL
    \/ do_OP_EQUALVERIFY
    \/ do_OP_ADD
    \/ do_OP_SUB
    \/ do_OP_MUL
    \/ do_OP_DIV
    \/ do_OP_MOD
    \/ do_OP_LSHIFT
    \/ do_OP_RSHIFT
    \/ do_OP_BOOLAND
    \/ do_OP_BOOLOR
    \/ do_OP_NUMEQUAL
    \/ do_OP_NUMNOTEQUAL
    \/ do_OP_LESSTHAN
    \/ do_OP_GREATERTHAN
    \/ do_OP_LESSTHANOREQUAL
    \/ do_OP_GREATERTHANOREQUAL
    \/ do_OP_MIN
    \/ do_OP_MAX
    \/ do_OP_NUMEQUALVERIFY
    \/ do_OP_WITHIN
    \/ do_OP_1ADD
    \/ do_OP_1SUB
    \/ do_OP_2MUL
    \/ do_OP_2DIV
    \/ do_OP_NEGATE
    \/ do_OP_ABS
    \/ do_OP_NOT
    \/ do_OP_0NOTEQUAL

Spec == Init /\ [][Next]_vars

-----------------------------------------------------------------------------
(* The state machine of the signature hash: one call on chosen arguments *)

Txs == {"tx1", "tx2"}

Scripts == {<<>>, <<118, 169>>}

InitSigHash ==
    /\ stack = <<>>
    /\ flags = {}
    /\ pc = 0
    /\ exc = "none"
    /\ errno = "none"
    /\ op = "none"
    /\ pre = <<>>
    /\ steps = 0
    /\ sh \in [tx : Txs, script : Scripts, idx : 0..MaxTxInIdx,
               hash_type : 0..MaxHashType, called : {FALSE}, exc : {"none"},
               digest : {<<>>}]
    /\ opcode_pairs = <<>>
    /\ OPCODE_DATA_LIST = {}
    /\ INSTRUCTION_LOOKUP = <<>>
    /\ opcode = -1
    /\ msg = <<>>

do_signature_hash ==
    /\ ~sh.called
    /\ LET r == signature_hash(sh.tx, sh.script, sh.idx, sh.hash_type)
       IN sh' = [sh EXCEPT !.called = TRUE, !.exc = r.exc, !.digest = r.digest]
    /\ UNCHANGED <<stack, flags, pc, exc, errno, op, pre, steps, lookup_vars>>

NextSigHash == do_signature_hash

SpecSigHash == InitSigHash /\ [][NextSigHash]_vars

-----------------------------------------------------------------------------
(* Building the instruction lookup from an opcode list, and dispatching a  *)
(* byte to the slot it names.                                               *)

\* the names an opcode list pairs with a byte: handlers of intops and of
\* stackops, and a name no group registers
PairNames == {"OP_ADD", "OP_VERIFY", "OP_DUP", "OP_RESERVED"}

\* the bytes an opcode list gives them: a data-push opcode (0) and others
PairValues == {0, 80, 147}

OpcodeLists ==
    UNION {[1..n -> PairNames \X PairValues] : n \in 0..MaxPairs}

\* BitcoinScriptCodec.data_opcodes: the pushes of 0..75 bytes, without or with
\* the PUSHDATA opcodes
DataOpcodes == {0..75, 0..78}

\* the bytes dispatched
DispatchBytes == {0, 76, 80, 147, 255}

InitLookup ==
    /\ stack \in {<<>>, <<<<1>>, abcdef>>}
    /\ flags = {}
    /\ pc \in 0..MaxPc
    /\ exc = "none"
    /\ errno = "none"
    /\ op = "none"
    /\ pre = <<>>
    /\ steps = 0
    /\ sh = ShIdle
    /\ opcode_pairs \in OpcodeLists
    /\ OPCODE_DATA_LIST \in DataOpcodes
    /\ INSTRUCTION_LOOKUP = <<>>
    /\ opcode = -1
    /\ msg = <<>>

\* INSTRUCTION_LOOKUP = _make_instruction_lookup(opcodes.OPCODE_LIST)
make_vm ==
    /\ op = "none"
    /\ INSTRUCTION_LOOKUP' = make_instruction_lookup(opcode_pairs, OPCODE_DATA_LIST)
    /\ op' = "make_vm"
    /\ UNCHANGED <<stack, flags, pc, exc, errno, pre, steps, sh,
                   opcode_pairs, OPCODE_DATA_LIST, opcode, msg>>

\* the byte b at pc is dispatched to a slot holding a bad instruction
dispatch_bad_instruction ==
    /\ op = "make_vm"
    /\ \E b \in DispatchBytes :
           /\ INSTRUCTION_LOOKUP[b].kind = "bad_instruction"
           /\ LET r == bad_instruction_call(INSTRUCTION_LOOKUP[b], pc)
              IN /\ exc' = r.exc
                 /\ errno' = r.errno
                 /\ msg' = r.msg
           /\ opcode' = b
    /\ op' = "dispatch"
    /\ pre' = stack
    /\ steps' = steps + 1
    /\ UNCHANGED <<stack, flags, pc, sh, opcode_pairs, OPCODE_DATA_LIST,
                   INSTRUCTION_LOOKUP>>

\* the byte b at pc is dispatched to a slot holding the no-op
dispatch_no_op ==
    /\ op = "make_vm"
    /\ \E b \in DispatchBytes :
           /\ INSTRUCTION_LOOKUP[b].kind = "no_op"
           /\ opcode' = b
    /\ op' = "dispatch"
    /\ pre' = stack
    /\ steps' = steps + 1
    /\ UNCHANGED <<stack, flags, pc, exc, errno, sh, opcode_pairs,
                   OPCODE_DATA_LIST, INSTRUCTION_LOOKUP, msg>>

NextLookup ==
    \/ make_vm
    \/ dispatch_bad_instruction
    \/ dispatch_no_op

SpecLookup == InitLookup /\ [][NextLookup]_vars

-----------------------------------------------------------------------------
(* NOT and 0NOTEQUAL on one item: every item of at most two bytes over the *)
(* bytes 0, 1, 0x80 and 0xff, and items of four, five and six bytes.        *)

TruthItems ==
    UNION {[1..n -> {0, 1, 128, 255}] : n \in 0..2}
        \cup {maxint4, abcdef, <<0, 0, 0, 0, 128>>, <<0, 0, 0, 0, 1>>, <<0, 0, 0, 128>>}

InitTruth ==
    /\ stack \in UNION {[1..n -> TruthItems] : n \in 0..1}
    /\ flags \in SUBSET {VERIFY_MINIMALDATA}
    /\ pc = 0
    /\ exc = "none"
    /\ errno = "none"
    /\ op = "none"
    /\ pre = <<>>
    /\ steps = 0
    /\ sh = ShIdle
    /\ opcode_pairs = <<>>
    /\ OPCODE_DATA_LIST = {}
    /\ INSTRUCTION_LOOKUP = <<>>
    /\ opcode = -1
    /\ msg = <<>>

NextTruth ==
    \/ do_OP_NOT
    \/ do_OP_0NOTEQUAL

SpecTruth == InitTruth /\ [][NextTruth]_vars

-----------------------------------------------------------------------------
(* Vocabulary of the properties.  pre is the stack a call started on, op   *)
(* the handler called, stack / exc / errno what the call left.              *)

\* the i-th item from the top of st
Top(st, i) == st[Len(st) - i + 1]

\* st without its n topmost items
Below(st, n) == SubSeq(st, 1, Len(st) - n)

\* the number an item encodes
Dec(item) == int_from_script_bytes(item, FALSE).val

\* the decoder accepts the item under the flags of this evaluation
DecodesOk(item) == IF RequireMinimal(flags) THEN IsMinimal(item) ELSE TRUE

\* an item a bounds-checked pop accepts
NumOperand(item) == ByteLen(item) <= 4 /\ DecodesOk(item)

\* an item that decodes to a non-negative number
NonNegOperand(item) == DecodesOk(item) /\ ~Dec(item).neg

\* an operand of at most two bytes: sums, products and short shifts of two of
\* them stay below 2^31
ShortOperand(item) == ByteLen(item) <= 2 /\ DecodesOk(item)

Succeeded == exc = "none"

MinInt(a, b) == IF a < b THEN a ELSE b

MaxInt(a, b) == IF a > b THEN a ELSE b

RECURSIVE ByteAt(_, _)
\* the i-th byte of the item s, 1 <= i <= ByteLen(s)
ByteAt(s, i) ==
    IF Head(s) < 0
    THEN (IF i <= 0 - Head(s) THEN 0 ELSE ByteAt(Tail(s), i + Head(s)))
    ELSE (IF i = 1 THEN Head(s) ELSE ByteAt(Tail(s), i - 1))

\* the bytes of target at offsets lo up to but not including hi, clamped: the
\* whole target, or its bytes one by one
Bytes(target, lo, hi) ==
    LET a == MinInt(lo, ByteLen(target))
        b == MinInt(hi, ByteLen(target))
    IN IF a = 0 /\ b = ByteLen(target) THEN target
       ELSE Pack([i \in 1..(IF b > a THEN b - a ELSE 0) |-> ByteAt(target, a + i)])

\* min(x, n + 1) for a non-negative Python int x: its place relative to 0..n
Within(x, n) == IF Fits(x) THEN MinInt(ToInt(x), n + 1) ELSE n + 1

-----------------------------------------------------------------------------
(* Signature hash *)

ForkBitSet(h) == (h \div 64) % 2 = 1

\* C1: signature_hash raises a ScriptError and returns no digest exactly when bit
\* 0x40 of hash_type is clear; when it is set, the result is the segwit-style
\* digest of the same transaction, script, index and unmodified hash_type.
C1_ForkIdGate ==
    sh.called =>
        /\ (sh.exc = "ScriptError") <=> ~ForkBitSet(sh.hash_type)
        /\ sh.exc \in {"none", "ScriptError"}
        /\ sh.exc = "ScriptError" => sh.digest = <<>>
        /\ ForkBitSet(sh.hash_type) =>
               sh.digest = <<"segwit", sh.tx, sh.script, sh.idx, sh.hash_type>>

C1_Witness ==
    /\ sh.called
    /\ sh.hash_type = 65
    /\ sh.exc = "none"
    /\ sh.digest = <<"segwit", "tx2", <<118, 169>>, 1, 65>>

-----------------------------------------------------------------------------
(* Bounds-checked operands *)

BinaryOps == {"ADD", "SUB", "MUL", "DIV", "MOD", "LSHIFT", "RSHIFT", "MIN", "MAX",
              "BOOLAND", "BOOLOR", "NUMEQUAL", "NUMNOTEQUAL", "LESSTHAN",
              "GREATERTHAN", "LESSTHANOREQUAL", "GREATERTHANOREQUAL"}

UnaryOps == {"1ADD", "1SUB", "2MUL", "2DIV", "NEGATE", "ABS"}

\* how many numeric operands the handler pops
NumericArity(o) ==
    IF o \in BinaryOps THEN 2
    ELSE IF o \in UnaryOps \/ o = "NOT" THEN 1
    ELSE IF o = "WITHIN" THEN 3
    ELSE 0

\* the i-th operand of the call is popped (those above it were accepted) and is
\* longer than four bytes
PopsLongOperand(i) ==
    /\ i <= NumericArity(op)
    /\ NumericArity(op) <= Len(pre)
    /\ ByteLen(Top(pre, i)) > 4
    /\ \A j \in 1..(i - 1) : NumOperand(Top(pre, j))

\* C2: a handler that pops a numeric operand longer than four bytes, on a stack
\* that holds all its operands, fails with the overflow error (and so never
\* computes with it).
C2_OperandBound ==
    \A i \in 1..3 :
        PopsLongOperand(i) =>
            /\ exc = "ScriptError"
            /\ errno = "UNKNOWN_ERROR"
            /\ stack = Below(pre, i)

-----------------------------------------------------------------------------
(* DIV and MOD *)

\* C3: on ..., a, b with b # 0 and both operands accepted, DIV pushes the floor
\* of a / b and MOD pushes r with (a - r) a multiple of b, r zero or of the sign
\* of b, and |r| < |b|; everything below the operands stays.
C3_FloorDivMod ==
    (/\ op \in {"DIV", "MOD"}
     /\ Len(pre) >= 2
     /\ ShortOperand(Top(pre, 1))
     /\ ShortOperand(Top(pre, 2))
     /\ Dec(Top(pre, 1)) # PyZero) =>
        LET a == ToInt(Dec(Top(pre, 2)))
            b == ToInt(Dec(Top(pre, 1)))
        IN /\ Succeeded
           /\ Len(stack) = Len(pre) - 1
           /\ Below(stack, 1) = Below(pre, 2)
           /\ IsMinimal(Top(stack, 1))
           /\ LET v == ToInt(Dec(Top(stack, 1)))
              IN IF op = "DIV"
                 THEN IF b > 0 THEN b * v <= a /\ a < b * v + b
                               ELSE b * v >= a /\ a > b * v + b
                 ELSE /\ v = 0 \/ ((v < 0) = (b < 0))
                      /\ AbsInt(v) < AbsInt(b)
                      /\ (a - v) % AbsInt(b) = 0

\* -7 DIV 2 is -4
C3_Witness ==
    /\ op = "DIV"
    /\ pre = <<<<135>>, <<2>>>>
    /\ stack = <<<<132>>>>

-----------------------------------------------------------------------------
(* Binary operators *)

ArithOps == {"ADD", "SUB", "MUL", "DIV", "MOD", "LSHIFT", "RSHIFT", "MIN", "MAX"}

\* a OP b has a value (and, for a shift, one below 2^31)
Defined(o, a, b) ==
    IF o \in {"DIV", "MOD"} THEN b # 0
    ELSE IF o \in {"LSHIFT", "RSHIFT"} THEN 0 <= b /\ b <= 14
    ELSE TRUE

\* floor(a / b), by the integer division of the naturals
FloorQuot(a, b) ==
    IF b > 0 THEN a \div b ELSE (0 - a) \div (0 - b)

\* a OP b for the arithmetic operators
ExpectedArith(o, a, b) ==
    CASE o = "ADD" -> a + b
      [] o = "SUB" -> a - b
      [] o = "MUL" -> a * b
      [] o = "DIV" -> FloorQuot(a, b)
      [] o = "MOD" -> a - b * FloorQuot(a, b)
      [] o = "LSHIFT" -> a * (2 ^ b)
      [] o = "RSHIFT" -> a \div (2 ^ b)
      [] o = "MIN" -> MinInt(a, b)
      [] o = "MAX" -> MaxInt(a, b)

\* a OP b for the comparison and boolean operators
ExpectedBool(o, a, b) ==
    CASE o = "BOOLAND" -> a # 0 /\ b # 0
      [] o = "BOOLOR" -> a # 0 \/ b # 0
      [] o = "NUMEQUAL" -> a = b
      [] o = "NUMNOTEQUAL" -> a # b
      [] o = "LESSTHAN" -> a < b
      [] o = "GREATERTHAN" -> a > b
      [] o = "LESSTHANOREQUAL" -> a <= b
      [] o = "GREATERTHANOREQUAL" -> a >= b

\* C4: a binary operator on S ++ [a, b] (b on top) with a OP b defined leaves
\* S ++ [enc(a OP b)]: the second-popped a is the left operand, the first-popped
\* b the right one; enc is the integer encoding for arithmetic operators and the
\* boolean encoding for the others.
C4_BinaryOperandOrder ==
    (/\ op \in BinaryOps
     /\ Len(pre) >= 2
     /\ ShortOperand(Top(pre, 1))
     /\ ShortOperand(Top(pre, 2))
     /\ Defined(op, ToInt(Dec(Top(pre, 2))), ToInt(Dec(Top(pre, 1))))) =>
        LET a == ToInt(Dec(Top(pre, 2)))
            b == ToInt(Dec(Top(pre, 1)))
        IN /\ Succeeded
           /\ stack = Below(pre, 2) \o
                  <<IF op \in ArithOps
                    THEN int_to_script_bytes(PyInt(ExpectedArith(op, a, b)))
                    ELSE bool_to_script_bytes(ExpectedBool(op, a, b))>>

\* 3 SUB 1 is 2, above an untouched item
C4_Witness ==
    /\ op = "SUB"
    /\ pre = <<<<1>>, <<3>>, <<1>>>>
    /\ stack = <<<<1>>, <<2>>>>

-----------------------------------------------------------------------------
(* WITHIN *)

\* C5: WITHIN on S ++ [x, lo, hi] (hi on top) with three accepted operands leaves
\* S ++ [bool(lo <= x < hi)].
C5_WithinHalfOpen ==
    (/\ op = "WITHIN"
     /\ Len(pre) >= 3
     /\ \A i \in 1..3 : NumOperand(Top(pre, i))) =>
        LET hi == ToInt(Dec(Top(pre, 1)))
            lo == ToInt(Dec(Top(pre, 2)))
            x == ToInt(Dec(Top(pre, 3)))
        IN /\ Succeeded
           /\ stack = Below(pre, 3) \o <<bool_to_script_bytes(lo <= x /\ x < hi)>>

\* x = hi is outside the range
C5_Witness ==
    /\ op = "WITHIN"
    /\ pre = <<<<2>>, <<1>>, <<2>>>>
    /\ stack = <<<<>>>>

-----------------------------------------------------------------------------
(* PICK and ROLL *)

\* C6: PICK on S ++ [enc(n)], n >= 0: when n < |S| it leaves S ++ [S[|S| - n]]
\* (1-based, the item at depth n), of the size of the stack before the call;
\* when n >= |S| it fails with underflow, leaving S.
C6_PickCopies ==
    (/\ op = "PICK"
     /\ Len(pre) >= 1
     /\ NonNegOperand(Top(pre, 1))) =>
        LET S == Below(pre, 1)
            n == Within(Dec(Top(pre, 1)), Len(S))
        IN IF n < Len(S)
           THEN /\ Succeeded
                /\ stack = S \o <<S[Len(S) - n]>>
                /\ Len(stack) = Len(pre)
                /\ n = 0 => Top(stack, 1) = Top(S, 1)
           ELSE /\ exc = "ScriptError"
                /\ errno = "UNDERFLOW"
                /\ stack = S

\* PICK 1 copies the second item from the top
C6_Witness ==
    /\ op = "PICK"
    /\ pre = <<<<2>>, <<3>>, <<1>>>>
    /\ stack = <<<<2>>, <<3>>, <<2>>>>

\* C7: ROLL on S ++ [enc(n)], n >= 0: when n < |S| it leaves S with the item at
\* depth n moved to the top and the other items in their order (S itself when
\* n = 0); when n >= |S| it fails with underflow.
C7_RollMoves ==
    (/\ op = "ROLL"
     /\ Len(pre) >= 1
     /\ NonNegOperand(Top(pre, 1))) =>
        LET S == Below(pre, 1)
            n == Within(Dec(Top(pre, 1)), Len(S))
            i == Len(S) - n
        IN IF n < Len(S)
           THEN /\ Succeeded
                /\ Len(stack) = Len(S)
                /\ Top(stack, 1) = S[i]
                /\ \A j \in 1..(i - 1) : stack[j] = S[j]
                /\ \A j \in i..(Len(S) - 1) : stack[j] = S[j + 1]
                /\ n = 0 => stack = S
           ELSE /\ exc = "ScriptError"
                /\ errno = "UNDERFLOW"

-----------------------------------------------------------------------------
(* SUBSTR, LEFT and RIGHT *)

\* C8: SUBSTR on S ++ [target, s, t] (t on top), s and t non-negative, leaves
\* S ++ [target[s : s + t]], clamped to the target, and never fails.
C8_SubstrSlice ==
    (/\ op = "SUBSTR"
     /\ Len(pre) >= 3
     /\ NonNegOperand(Top(pre, 1))
     /\ NonNegOperand(Top(pre, 2))) =>
        LET target == Top(pre, 3)
            t == Within(Dec(Top(pre, 1)), ByteLen(target))
            s == Within(Dec(Top(pre, 2)), ByteLen(target))
        IN /\ Succeeded
           /\ stack = Below(pre, 3) \o <<Bytes(target, s, s + t)>>
           /\ s >= ByteLen(target) => Top(stack, 1) = <<>>

\* 'abcdef' from offset 3, length 2, is 'de'
C8_Witness ==
    /\ op = "SUBSTR"
    /\ pre = <<abcdef, <<3>>, <<2>>>>
    /\ stack = <<<<100, 101>>>>

\* C9: LEFT and RIGHT on S ++ [target, enc(pos)], pos >= 0, leave S ++ [r] and
\* never fail: r is the first min(pos, len) bytes for LEFT, the last
\* min(pos, len) bytes for RIGHT, which is the empty item when pos = 0.
C9_LeftRight ==
    (/\ op \in {"LEFT", "RIGHT"}
     /\ Len(pre) >= 2
     /\ NonNegOperand(Top(pre, 1))) =>
        LET target == Top(pre, 2)
            len == ByteLen(target)
            k == MinInt(Within(Dec(Top(pre, 1)), len), len)
        IN /\ Succeeded
           /\ Len(stack) = Len(pre) - 1
           /\ Below(stack, 1) = Below(pre, 2)
           /\ ByteLen(Top(stack, 1)) = k
           /\ IF k = len THEN Top(stack, 1) = target
              ELSE \A i \in 1..k :
                       ByteAt(Top(stack, 1), i) =
                           IF op = "LEFT" THEN ByteAt(target, i)
                           ELSE ByteAt(target, len - k + i)

\* RIGHT 0 of 'abcdef' is the empty item
C9_Witness ==
    /\ op = "RIGHT"
    /\ pre = <<abcdef, <<>>>>
    /\ stack = <<<<>>>>

-----------------------------------------------------------------------------
(* EQUAL *)

\* u and v are the same bytes: of the same length, and the same element by
\* element (a byte string has one representation)
SameBytes(u, v) ==
    /\ ByteLen(u) = ByteLen(v)
    /\ Len(u) = Len(v)
    /\ \A i \in 1..Len(u) : u[i] = v[i]

\* C10: EQUAL on S ++ [u, v] leaves S ++ [bool(u and v are the same bytes)]: true
\* for two copies of an item, false for items of different length, also when
\* they encode the same number.
C10_EqualRawBytes ==
    (op = "EQUAL" /\ Len(pre) >= 2) =>
        LET u == Top(pre, 2)
            v == Top(pre, 1)
        IN /\ Succeeded
           /\ stack = Below(pre, 2) \o <<bool_to_script_bytes(SameBytes(u, v))>>
           /\ ByteLen(u) # ByteLen(v) => Top(stack, 1) = VM_FALSE

\* 0x01 and 0x0100 both encode 1 and are not equal
C10_Witness ==
    /\ op = "EQUAL"
    /\ pre = <<<<1>>, <<1, 0>>>>
    /\ stack = <<<<>>>>

-----------------------------------------------------------------------------
(* VERIFY, EQUALVERIFY and NUMEQUALVERIFY *)

\* the item reads as true: some byte is non-zero, a lone sign bit in the last
\* byte (negative zero) excepted
BoolTrue(v) ==
    \E i \in 1..Len(v) :
        IF i = Len(v) THEN v[i] > 0 /\ v[i] # 128 ELSE v[i] > 0

\* C11: VERIFY on S ++ [v] succeeds leaving exactly S when v is boolean-true and
\* fails with the error code VERIFY when v is boolean-false; EQUALVERIFY on
\* S ++ [u, v] succeeds leaving exactly S, with no boolean left on the stack,
\* when u and v are the same bytes, and fails with the error code EQUALVERIFY,
\* not VERIFY, when they differ.
C11_VerifyCodes ==
    /\ (op = "VERIFY" /\ Len(pre) >= 1) =>
           IF BoolTrue(Top(pre, 1))
           THEN Succeeded /\ stack = Below(pre, 1)
           ELSE exc = "ScriptError" /\ errno = "VERIFY"
    /\ (op = "EQUALVERIFY" /\ Len(pre) >= 2) =>
           IF SameBytes(Top(pre, 2), Top(pre, 1))
           THEN Succeeded /\ stack = Below(pre, 2)
           ELSE exc = "ScriptError" /\ errno = "EQUALVERIFY" /\ errno # "VERIFY"

\* EQUALVERIFY on the differing items 0x01 and 0x0100 has failed with its own code
C11_Witness ==
    /\ op = "EQUALVERIFY"
    /\ pre = <<<<1>>, <<1, 0>>>>
    /\ exc = "ScriptError"
    /\ errno = "EQUALVERIFY"

\* C12: NUMEQUALVERIFY leaves on every stack the outcome of NUMEQUAL followed by
\* VERIFY: on S ++ [a, b] with numerically equal operands exactly S, with
\* unequal operands a failure with the error code VERIFY, and the failure of
\* NUMEQUAL (overflow, encoding, underflow) when NUMEQUAL itself fails.
C12_NumEqualVerifyIsSequence ==
    op = "NUMEQUALVERIFY" =>
        LET n == OP_NUMEQUAL(pre, flags)
            v == OP_VERIFY(n.stack, flags)
        IN /\ IF n.exc # "none"
              THEN exc = n.exc /\ errno = n.errno /\ stack = n.stack
              ELSE exc = v.exc /\ errno = v.errno /\ stack = v.stack
           /\ (pre = <<>> \/ (Len(pre) = 1 /\ NumOperand(Top(pre, 1)))) =>
                  exc = "ScriptError" /\ errno = "UNDERFLOW"
           /\ (Len(pre) >= 1 /\ ByteLen(Top(pre, 1)) > 4) =>
                  exc = "ScriptError" /\ errno = "UNKNOWN_ERROR"
           /\ (Len(pre) >= 1 /\ ByteLen(Top(pre, 1)) <= 4 /\ ~DecodesOk(Top(pre, 1))) =>
                  exc = "ScriptError" /\ errno = "ENCODING"
           /\ (Len(pre) >= 2 /\ NumOperand(Top(pre, 1)) /\ NumOperand(Top(pre, 2))) =>
                  IF Dec(Top(pre, 2)) = Dec(Top(pre, 1))
                  THEN Succeeded /\ stack = Below(pre, 2)
                  ELSE exc = "ScriptError" /\ errno = "VERIFY"

\* NUMEQUALVERIFY has accepted 0x01 and 0x0100, which are equal as numbers only
C12_Witness ==
    /\ op = "NUMEQUALVERIFY"
    /\ pre = <<<<1>>, <<1, 0>>>>
    /\ Succeeded
    /\ stack = <<>>

-----------------------------------------------------------------------------
(* The instruction lookup *)

\* the lookup has been built
Built == op \in {"make_vm", "dispatch"}

\* the positions of the opcode list that pair a registered name with byte i
NamedAt(i) ==
    {k \in 1..Len(opcode_pairs) :
        opcode_pairs[k][2] = i /\ opcode_pairs[k][1] \in DOMAIN opcode_lookups}

\* the number two hexadecimal characters denote
HexVal(cs) ==
    LET digits == <<"0", "1", "2", "3", "4", "5", "6", "7", "8", "9",
                    "a", "b", "c", "d", "e", "f">>
        val(c) == (CHOOSE d \in 1..16 : digits[d] = c) - 1
    IN 16 * val(cs[1]) + val(cs[2])

\* C13: the instruction lookup is a total function on the bytes 0..255: slot i
\* holds the registered handler of a name N that the opcode list pairs with i
\* when there is such a registered name, also when i is a data-push opcode;
\* otherwise the no-op when i is a data-push opcode; otherwise a handler that,
\* dispatched, fails with BAD_OPCODE, reports byte i and the program counter and
\* leaves the data stack unchanged.  A name in the list but not in the registry,
\* or in the registry but not in the list, installs nothing.
C13_LookupTotal ==
    Built =>
        /\ DOMAIN INSTRUCTION_LOOKUP = 0..255
        /\ \A i \in 0..255 :
               IF NamedAt(i) # {}
               THEN \E k \in NamedAt(i) :
                        INSTRUCTION_LOOKUP[i] = opcode_lookups[opcode_pairs[k][1]]
               ELSE IF i \in OPCODE_DATA_LIST
               THEN INSTRUCTION_LOOKUP[i].kind = "no_op"
               ELSE /\ INSTRUCTION_LOOKUP[i].kind = "bad_instruction"
                    /\ INSTRUCTION_LOOKUP[i].v = i
        /\ (op = "dispatch" /\ INSTRUCTION_LOOKUP[opcode].kind = "bad_instruction") =>
               /\ exc = "ScriptError"
               /\ errno = "BAD_OPCODE"
               /\ HexVal(msg[2]) = opcode
               /\ msg[4] = pc
               /\ stack = pre

\* ADD is paired with the data-push byte 0 and holds that slot; RESERVED, which
\* no group registers, is paired with byte 80, whose dispatch at pc 1 has failed
C13_Witness ==
    /\ op = "dispatch"
    /\ opcode_pairs = <<<<"OP_ADD", 0>>, <<"OP_RESERVED", 80>>>>
    /\ INSTRUCTION_LOOKUP[0].name = "do_OP_ADD"
    /\ opcode = 80
    /\ pc = 1
    /\ errno = "BAD_OPCODE"
    /\ stack = <<<<1>>, abcdef>>

-----------------------------------------------------------------------------
(* The minimal-data flag *)

\* the outcome of the handler of opcode o on the stack st under the flags fl
Handler(o, st, fl) ==
    CASE o = "VERIFY" -> OP_VERIFY(st, fl)
      [] o = "DEPTH" -> OP_DEPTH(st, fl)
      [] o = "PICK" -> OP_PICK(st, fl)
      [] o = "ROLL" -> OP_ROLL(st, fl)
      [] o = "SUBSTR" -> OP_SUBSTR(st, fl)
      [] o = "LEFT" -> OP_LEFT(st, fl)
      [] o = "RIGHT" -> OP_RIGHT(st, fl)
      [] o = "SIZE" -> OP_SIZE(st, fl)
      [] o = "EQUAL" -> OP_EQUAL(st, fl)
      [] o = "EQUALVERIFY" -> OP_EQUALVERIFY(st, fl)
      [] o \in ArithOps -> make_bin_op(o, st, fl)
      [] o \in BinaryOps \ ArithOps -> make_bool_bin_op(o, st, fl)
      [] o = "NUMEQUALVERIFY" -> OP_NUMEQUALVERIFY(st, fl)
      [] o = "WITHIN" -> OP_WITHIN(st, fl)
      [] o \in UnaryOps -> make_unary_num_op(o, st, fl)
      [] o = "NOT" -> OP_NOT(st, fl)
      [] o = "0NOTEQUAL" -> OP_0NOTEQUAL(st, fl)

\* the handlers that pop through the bounds check
BoundsCheckedOps == BinaryOps \cup UnaryOps \cup {"NOT", "NUMEQUALVERIFY"}

\* the handlers that decode a non-negative integer
NonNegativeOps == {"PICK", "ROLL", "SUBSTR", "LEFT", "RIGHT"}

\* how many items from the top the handler decodes as integers
IntOperands(o) ==
    IF o \in {"PICK", "ROLL", "LEFT", "RIGHT", "NOT"} \cup UnaryOps THEN 1
    ELSE IF o \in BinaryOps \cup {"SUBSTR", "NUMEQUALVERIFY"} THEN 2
    ELSE IF o = "WITHIN" THEN 3
    ELSE 0

\* the handler o accepts the item as an integer operand
Accepts(o, item) ==
    /\ DecodesOk(item)
    /\ o \in BoundsCheckedOps => ByteLen(item) <= 4
    /\ o \in NonNegativeOps => ~Dec(item).neg

\* the stack st with the j-th item from the top re-encoded minimally
Canonical(st, j) ==
    [st EXCEPT ![Len(st) - j + 1] = int_to_script_bytes(Dec(st[Len(st) - j + 1]))]

\* the j-th operand of the call is of at most four bytes and not minimally
\* encoded, and the operands above it were accepted
NonMinimalOperand(j) ==
    /\ j <= IntOperands(op)
    /\ j <= Len(pre)
    /\ ByteLen(Top(pre, j)) <= 4
    /\ ~IsMinimal(Top(pre, j))
    /\ \A i \in 1..(j - 1) : Accepts(op, Top(pre, i))

\* C14: every handler that decodes a stack item as an integer passes the
\* minimal-data flag to the decoder: on an operand of at most four bytes that is
\* not minimally encoded it fails with the encoding error when the flag is set,
\* and when the flag is clear it leaves what it leaves on the minimal encoding
\* of the same number.
C14_MinimalDataFlag ==
    \A j \in 1..3 :
        NonMinimalOperand(j) =>
            IF RequireMinimal(flags)
            THEN /\ exc = "ScriptError"
                 /\ errno = "ENCODING"
                 /\ stack = Below(pre, j)
            ELSE LET r == Handler(op, Canonical(pre, j), flags)
                 IN /\ stack = r.stack
                    /\ exc = r.exc
                    /\ errno = r.errno

\* with the flag clear WITHIN has taken 0x0100 as the value 1, within [1, 2)
C14_Witness ==
    /\ op = "WITHIN"
    /\ flags = {}
    /\ pre = <<<<1, 0>>, <<1>>, <<2>>>>
    /\ Succeeded
    /\ stack = <<VM_TRUE>>

-----------------------------------------------------------------------------
(* NOT and 0NOTEQUAL *)

\* C15: 0NOTEQUAL on S ++ [v] leaves S ++ [enc(1)] when v is boolean-true and
\* S ++ [the empty item] when v is boolean-false, for items of any length: it
\* has no four-byte operand bound, which NOT has.  On every item of at most four
\* bytes that both accept, exactly one of NOT and 0NOTEQUAL pushes a true item.
C15_ZeroNotEqual ==
    /\ (op = "0NOTEQUAL" /\ Len(pre) >= 1) =>
           /\ Succeeded
           /\ stack = Below(pre, 1)
                        \o <<IF BoolTrue(Top(pre, 1)) THEN <<1>> ELSE <<>>>>
    /\ (op = "NOT" /\ Len(pre) >= 1 /\ ByteLen(Top(pre, 1)) > 4) =>
           exc = "ScriptError" /\ errno = "UNKNOWN_ERROR"
    /\ (op \in {"NOT", "0NOTEQUAL"} /\ Len(pre) >= 1 /\ ByteLen(Top(pre, 1)) <= 4) =>
           LET other == Handler(IF op = "NOT" THEN "0NOTEQUAL" ELSE "NOT", pre, flags)
           IN (Succeeded /\ other.exc = "none") =>
                  BoolTrue(Top(stack, 1)) # BoolTrue(Top(other.stack, 1))

\* 0NOTEQUAL has taken the five-byte negative zero, which NOT rejects, as false
C15_Witness ==
    /\ op = "0NOTEQUAL"
    /\ pre = <<<<0, 0, 0, 0, 128>>>>
    /\ Succeeded
    /\ stack = <<<<>>>>

-----------------------------------------------------------------------------
(* DEPTH and SIZE *)

RECURSIVE LittleEndian(_)
\* the base-256 digits of a number n > 0, least significant first
LittleEndian(n) == IF n < 256 THEN <<n>> ELSE <<n % 256>> \o LittleEndian(n \div 256)

\* the minimal encoding of a number n >= 0: its digits, and a zero byte after
\* them when the last digit has the sign bit set
EncSmall(n) ==
    IF n = 0 THEN <<>>
    ELSE IF Last(LittleEndian(n)) >= 128 THEN LittleEndian(n) \o <<0>>
    ELSE LittleEndian(n)

\* C16: DEPTH on any stack S, the empty one included, leaves S ++ [enc(|S|)] and
\* SIZE on S ++ [v] leaves S ++ [v, enc(len(v))]; SIZE on the empty stack fails
\* with underflow; and DEPTH called twice in a row pushes enc(|S|) and then
\* enc(|S| + 1).
C16_DepthSizePush ==
    /\ [](/\ op = "DEPTH" => Succeeded /\ stack = pre \o <<EncSmall(Len(pre))>>
          /\ (op = "SIZE" /\ pre # <<>>) =>
                 Succeeded /\ stack = pre \o <<EncSmall(ByteLen(Top(pre, 1)))>>
          /\ (op = "SIZE" /\ pre = <<>>) =>
                 exc = "ScriptError" /\ errno = "UNDERFLOW" /\ stack = <<>>)
    /\ [][(op = "DEPTH" /\ op' = "DEPTH" /\ steps' = steps + 1) =>
              stack' = pre \o <<EncSmall(Len(pre)), EncSmall(Len(pre) + 1)>>]_vars

\* DEPTH has been called twice on the stack [0x01, 0x02]
C16_Witness ==
    /\ op = "DEPTH"
    /\ steps = 2
    /\ pre = <<<<1>>, <<2>>, <<2>>>>
    /\ stack = <<<<1>>, <<2>>, <<2>>, <<3>>>>

-----------------------------------------------------------------------------
(* Failures *)

\* the symbolic error codes a Script Error carries
ErrorCodes == {"UNDERFLOW", "ENCODING", "NEGATIVE", "UNKNOWN_ERROR", "VERIFY",
               "EQUALVERIFY", "BAD_OPCODE"}

\* C17: every handler call that fails ends in a Script Error carrying a symbolic
\* error code (a pop from an empty stack, PICK or ROLL beyond the depth, SIZE on
\* an empty stack, DIV or MOD by zero, LSHIFT or RSHIFT by a negative count): no
\* handler failure surfaces as any other kind of fault.
C17_FailuresAreScriptErrors ==
    exc # "none" => exc = "ScriptError" /\ errno \in ErrorCodes


\* s is t with items removed from the top
IsPrefix(s, t) == Len(s) <= Len(t) /\ \A i \in 1..Len(s) : s[i] = t[i]

\* C18: whenever a handler call fails, the data stack left behind is a prefix of
\* the stack before the call: the call has only removed items from the top, and
\* has pushed nothing and reordered nothing.  After a failed EQUALVERIFY or
\* NUMEQUALVERIFY the intermediate boolean is not on the stack.
C18_FailureLeavesPrefix ==
    exc # "none" =>
        /\ IsPrefix(stack, pre)
        /\ (op \in {"EQUALVERIFY", "NUMEQUALVERIFY"} /\ errno \in {"EQUALVERIFY", "VERIFY"}) =>
               stack = Below(pre, 2)

\* ADD has failed on its first operand, the six-byte item, and left the rest
C18_Witness ==
    /\ op = "ADD"
    /\ pre = <<<<1>>, abcdef>>
    /\ exc = "ScriptError"
    /\ errno = "UNKNOWN_ERROR"
    /\ stack = <<<<1>>>>

-----------------------------------------------------------------------------
(* Stack effect *)

\* the change of the stack size a successful call makes
SizeChange(o) ==
    IF o \in {"DEPTH", "SIZE"} THEN 1
    ELSE IF o \in {"PICK", "NOT", "0NOTEQUAL"} \cup UnaryOps THEN 0
    ELSE IF o \in {"ROLL", "LEFT", "RIGHT", "EQUAL", "VERIFY"} \cup BinaryOps THEN -1
    ELSE -2

\* the number of items a successful call pops
Pops(o) ==
    IF o \in {"DEPTH", "SIZE"} THEN 0
    ELSE IF o \in {"PICK", "NOT", "0NOTEQUAL", "VERIFY"} \cup UnaryOps THEN 1
    ELSE IF o \in {"LEFT", "RIGHT", "EQUAL", "EQUALVERIFY", "NUMEQUALVERIFY"}
                  \cup BinaryOps THEN 2
    ELSE 3

\* C19: every successful handler call changes the stack size by an amount fixed
\* by the opcode (DEPTH and SIZE +1; PICK, NOT, 0NOTEQUAL and the unary ops 0;
\* ROLL, LEFT, RIGHT, EQUAL, VERIFY and the binary ops -1; SUBSTR, WITHIN,
\* EQUALVERIFY and NUMEQUALVERIFY -2); for every handler but ROLL the items
\* beneath the operands it pops keep their value and order; and no handler call
\* changes the flags or the program counter.
C19_StackEffect ==
    /\ []((op # "none" /\ Succeeded) =>
              /\ Len(stack) = Len(pre) + SizeChange(op)
              /\ op # "ROLL" =>
                     /\ Len(pre) >= Pops(op)
                     /\ IsPrefix(Below(pre, Pops(op)), stack))
    /\ [][flags' = flags /\ pc' = pc]_vars

\* SIZE has pushed the length of the six-byte item above an untouched stack
C19_Witness ==
    /\ op = "SIZE"
    /\ flags = {VERIFY_MINIMALDATA}
    /\ pre = <<<<1>>, abcdef>>
    /\ stack = <<<<1>>, abcdef, <<6>>>>

-----------------------------------------------------------------------------
(* Results wider than four bytes *)

RECURSIVE ShiftAddMul(_, _)
\* x * n for a natural number n, by doubling and adding
ShiftAddMul(x, n) ==
    IF n = 0 THEN PyZero
    ELSE LET h == ShiftAddMul(x, n \div 2)
         IN IF n % 2 = 1 THEN PyAdd(PyAdd(h, h), x) ELSE PyAdd(h, h)

RECURSIVE LongMul(_, _)
\* x * m for a magnitude m, digit by digit: x * m[1] + 256 * (x * the rest)
LongMul(x, m) ==
    IF m = <<>> THEN PyZero
    ELSE LET rest == LongMul(x, Tail(m))
         IN PyAdd(ShiftAddMul(x, Head(m)), MkInt(rest.neg, <<0>> \o rest.mag))

\* r is a OP b, stated through the inverse or another algorithm of OP
Exact(o, a, b, r) ==
    CASE o = "ADD" -> PySub(r, b) = a
      [] o = "SUB" -> PyAdd(r, b) = a
      [] o = "MUL" -> r = (IF b.neg THEN PyNeg(LongMul(a, b.mag)) ELSE LongMul(a, b.mag))
      \* r is a * 2^(b % 8) above b / 8 zero digits
      [] o = "LSHIFT" ->
             LET q == ToInt(b) \div 8
             IN IF a = PyZero THEN r = PyZero
                ELSE /\ ByteLen(r.mag) > q
                     /\ ByteSub(r.mag, 1, q) = Nulls(q)
                     /\ MkInt(r.neg, ByteSub(r.mag, q + 1, ByteLen(r.mag)))
                            = PyMul(a, PyInt(Pow2(ToInt(b) % 8)))
      [] o = "1ADD" -> PySub(r, PyInt(1)) = a
      [] o = "2MUL" -> PySub(r, a) = a

\* an item longer than four bytes is on top of the stack the call started on
LongOnTop == Len(pre) >= 1 /\ ByteLen(Top(pre, 1)) > 4

\* C20: arithmetic results are never clamped or wrapped to the four-byte operand
\* range: ADD, SUB, MUL, LSHIFT, 1ADD and 2MUL on accepted operands succeed and
\* push the minimal encoding of the full value, also when it needs more than
\* four bytes.  A handler that pops through the bounds check then fails on such
\* an item with the overflow error, while EQUAL, SIZE, PICK (copying it), ROLL
\* (moving it), VERIFY and 0NOTEQUAL accept it.
C20_NoClamping ==
    /\ (/\ op \in {"ADD", "SUB", "MUL", "LSHIFT"}
        /\ Len(pre) >= 2
        /\ NumOperand(Top(pre, 1))
        /\ NumOperand(Top(pre, 2))
        /\ op = "LSHIFT" => ~Dec(Top(pre, 1)).neg) =>
           /\ Succeeded
           /\ Below(stack, 1) = Below(pre, 2)
           /\ IsMinimal(Top(stack, 1))
           /\ Exact(op, Dec(Top(pre, 2)), Dec(Top(pre, 1)), Dec(Top(stack, 1)))
    /\ (op \in {"1ADD", "2MUL"} /\ Len(pre) >= 1 /\ NumOperand(Top(pre, 1))) =>
           /\ Succeeded
           /\ Below(stack, 1) = Below(pre, 1)
           /\ IsMinimal(Top(stack, 1))
           /\ Exact(op, Dec(Top(pre, 1)), PyZero, Dec(Top(stack, 1)))
    /\ (op \in BoundsCheckedOps /\ LongOnTop) =>
           exc = "ScriptError" /\ errno = "UNKNOWN_ERROR"
    /\ (/\ op \in BinaryOps \cup {"NUMEQUALVERIFY"}
        /\ Len(pre) >= 2
        /\ NumOperand(Top(pre, 1))
        /\ ByteLen(Top(pre, 2)) > 4) =>
           exc = "ScriptError" /\ errno = "UNKNOWN_ERROR"
    /\ (op = "EQUAL" /\ Len(pre) >= 2) => Succeeded
    /\ (op = "SIZE" /\ LongOnTop) =>
           Succeeded /\ stack = pre \o <<EncSmall(ByteLen(Top(pre, 1)))>>
    /\ (op = "VERIFY" /\ LongOnTop /\ BoolTrue(Top(pre, 1))) =>
           Succeeded /\ stack = Below(pre, 1)
    /\ (op = "0NOTEQUAL" /\ LongOnTop) => Succeeded
    /\ (/\ op \in {"PICK", "ROLL"}
        /\ Len(pre) >= 2
        /\ NonNegOperand(Top(pre, 1))
        /\ PyLess(Dec(Top(pre, 1)), PyInt(Len(pre) - 1))) =>
           /\ Succeeded
           /\ Top(stack, 1) = Top(pre, 2 + ToInt(Dec(Top(pre, 1))))

\* ADD of 2147483647 and 2147483647 has left the five-byte 4294967294, and the
\* next call, 1ADD, has failed on it with the overflow error
C20_Witness ==
    /\ steps = 2
    /\ op = "1ADD"
    /\ pre = <<<<254, 255, 255, 255, 0>>>>
    /\ exc = "ScriptError"
    /\ errno = "UNKNOWN_ERROR"

====
